---- MODULE Spec2Model ----
(***************************************************************************)
(* A model of package yieldpoint: the reference-counted high-priority      *)
(* signal (HighPriorityCount), the wait gate (Mu, Cond) and the yield and  *)
(* wait primitives of yieldpoint.go.  Every goroutine is a process whose   *)
(* position inside the function it is executing is pc[g]; one action is    *)
(* one atomic step of that function (an atomic Load/Add/Store, a Lock, the *)
(* two halves of Cond.Wait, a Broadcast, an Unlock, a Gosched).            *)
(***************************************************************************)
EXTENDS Integers, Sequences, FiniteSets, TLC

\* ------------------------------------------------------------------ bounds
NumProcs == 3        \* goroutines
MaxCalls == 3        \* calls made in a run, matching ExitHighPriority calls aside
MaxSpin == 1         \* largest configured SpinWaitIterations
MaxIter == 1         \* iterations of the TestRaceConditions loop
MaxContextCalls == 2 \* calls made in a run that uses the whole package

Procs == 1..NumProcs

VARIABLES
    HighPriorityCount,   \* atomic.Int32: the signal counter
    Mu,                  \* sync.Mutex: 0 when unlocked, else the holder
    Cond,                \* sync.Cond: the goroutines parked in Cond.Wait
    SpinWaitIterations,  \* the configured spin budget
    pc,                  \* pc[g]: where goroutine g stands
    count,               \* count[g]: ExitHighPriority's local "count"
    spin,                \* spin[g]: iterations left in WaitIfActiveFast's range loop
    depth,               \* depth[g]: sections g has entered and not yet exited
    ret,                 \* ret[g]: the outcome of g's last call ("none": no result)
    obs,                 \* obs[g]: what g's current/last wait call has witnessed
    gate,                \* gate[g]: g's current/last wait call has acquired Mu
    left,                \* calls the run may still make
    workload,            \* "free", "balanced" (no unmatched exit) or "race"
    step,                \* step[g]: calls g has made of the race workload
    started,             \* goroutines that have made their first call
    call,                \* call[g]: the function g called last ("none": no call yet)
    ctx,                 \* ctx[g]: the context.Context of g's current/last call
    tick,                \* tick[g]: g's ticker.C holds a tick not yet received
    traceFunc,           \* atomic.Value: "nil" or the installed "handler"
    events,              \* the YieldEvents handed to the handler, in order
    IsHighPriority,      \* atomic.Value: "unset", or the bool stored last
    declared,            \* declared[g]: what g passed to SetHighPriority last
    setter               \* the goroutine whose SetHighPriority came last (0: none)

vars == <<HighPriorityCount, Mu, Cond, SpinWaitIterations, pc, count, spin,
          depth, ret, obs, gate, left, workload, step, started, call, ctx,
          tick, traceFunc, events, IsHighPriority, declared, setter>>

\* The state of the context adapters and of the trace sink.
adapters == <<ctx, tick, traceFunc, events>>

\* The Priority Flag, and who declared what.
flag == <<IsHighPriority, declared, setter>>

\* ------------------------------------------------------------- pure helpers

\* `var DefaultYieldDuration = 1 * time.Millisecond`, in milliseconds.  No
\* function of yieldpoint.go reads or sets it.
DefaultYieldDuration == 1

RECURSIVE SumTo(_, _)
SumTo(f, n) == IF n = 0 THEN 0 ELSE f[n] + SumTo(f, n - 1)

\* Number of priority sections that are open: entered and not yet exited.
Open == SumTo(depth, NumProcs)

\* A faulty test: any nonzero counter counts as active.
IsHighPriorityActiveNonZero == HighPriorityCount # 0

\* `HighPriorityCount.Load() > 0`
IsHighPriorityActive == HighPriorityCount > 0

\* A faulty increment: a flag set to one instead of a reference count.
EnterAddAsFlag(c) == 1

\* EnterHighPriority's `HighPriorityCount.Add(1)`.  The counter is an int32; the
\* runs modelled here stay far from its limits, so the addition never wraps.
EnterAdd(c) == c + 1

\* ExitHighPriority's `HighPriorityCount.Add(-1)`
ExitAdd(c) == c - 1

\* A faulty branch: the broadcast is also made when the result is negative.
ExitBranchBroadcastOnNegative(c) ==
    IF c <= 0 THEN "exit_lock" ELSE "idle"

\* A faulty branch: the reset of a negative counter is left out.
ExitBranchNoReset(c) ==
    IF c = 0 THEN "exit_lock" ELSE "idle"

\* ExitHighPriority's branch on count, the result of the decrement:
\* `if count == 0 {...} else if count < 0 {...}`.
ExitBranch(c) ==
    IF c = 0 THEN "exit_lock" ELSE IF c < 0 THEN "exit_store" ELSE "idle"

\* A faulty loop condition: off by one.
WaitIfActiveCondOffByOne(c) == c > 1

\* The loop condition of WaitIfActive: `HighPriorityCount.Load() > 0`.
WaitIfActiveCond(c) == c > 0

\* A faulty spin check: a zero counter is not recognised.
SpinClearNever(c) == FALSE

\* The spin check of WaitIfActiveFast: `HighPriorityCount.Load() == 0`.
SpinClear(c) == c = 0

\* A faulty fallback condition: the negation of the spin check.
WaitIfActiveFastCondNonZero(c) == c # 0

\* The fallback loop condition of WaitIfActiveFast.
WaitIfActiveFastCond(c) == c > 0

\* A faulty yield condition: a flag declaring high priority also makes the
\* caller yield.
MaybeYieldCondOrFlag(c) == c > 0 \/ IsHighPriority = "true"

\* A faulty yield condition: a zero counter also yields.
MaybeYieldCondNotNegative(c) == c >= 0

\* The condition of MaybeYield and MaybeYieldFast: `HighPriorityCount.Load() > 0`.
MaybeYieldCond(c) == c > 0

\* `for range SpinWaitIterations`: the bound is evaluated once; none if n <= 0.
SpinBudget(n) == IF n > 0 THEN n ELSE 0

\* The loop body of TestRaceConditions.
RaceSeq == <<"Enter", "MaybeYield", "MaybeYieldFast", "IsActive", "Exit",
             "WaitIfActiveFast">>

\* The body of a goroutine of TestGoroutineIDTracking.
IdSeq == <<"Enter", "MaybeYield", "Exit">>

\* The calls a goroutine of a scripted workload makes, and how many times over.
Script == IF workload = "ids" THEN IdSeq ELSE RaceSeq

Rounds == IF workload = "ids" THEN 1 ELSE MaxIter

\* What a call costs of the run's budget: an ExitHighPriority that closes a
\* section of its own goroutine is always allowed.
Cost(g, op) == IF op = "Exit" /\ depth[g] > 0 THEN 0 ELSE 1

\* ------------------------------------------------------------------- calls

\* Goroutine g calls op: it is between calls, and the driver allows the call.
\* The goroutines run the same code, so they are numbered in the order of their
\* first calls: goroutine g + 1 makes no call before goroutine g has made one.
Called(g, op) ==
    /\ pc[g] = "idle"
    /\ call' = [call EXCEPT ![g] = op]
    /\ g <= started + 1
    /\ started' = IF g > started THEN g ELSE started
    /\ IF workload \in {"race", "ids"}
       THEN /\ step[g] < Rounds * Len(Script)
            /\ Script[(step[g] % Len(Script)) + 1] = op
            /\ step' = [step EXCEPT ![g] = @ + 1]
            /\ left' = left
       ELSE /\ left >= Cost(g, op)
            /\ op = "Exit" /\ depth[g] = 0 => workload # "balanced"
            /\ left' = left - Cost(g, op)
            /\ step' = step

\* A call of the counter protocol: it touches neither a context nor the trace
\* sink (no function of yieldpoint.go calls traceYieldEvent).
Begin(g, op) == Called(g, op) /\ UNCHANGED adapters /\ UNCHANGED flag

\* A step inside a call: the driver's books stay as they are.
Quiet == UNCHANGED <<left, step, started, call>> /\ UNCHANGED flag

NoCall == Quiet /\ UNCHANGED adapters

\* ---------------------------------------------------------------- actions

EnterHighPriority(g) ==
    /\ Begin(g, "Enter")
    /\ HighPriorityCount' = EnterAdd(HighPriorityCount)
    /\ depth' = [depth EXCEPT ![g] = @ + 1]
    /\ ret' = [ret EXCEPT ![g] = "none"]
    /\ UNCHANGED <<Mu, Cond, SpinWaitIterations, pc, count, spin, obs, gate,
                   workload>>

\* count := HighPriorityCount.Add(-1), and the branch on count.
ExitHighPriority(g) ==
    /\ Begin(g, "Exit")
    /\ HighPriorityCount' = ExitAdd(HighPriorityCount)
    /\ count' = [count EXCEPT ![g] = ExitAdd(HighPriorityCount)]
    /\ pc' = [pc EXCEPT ![g] = ExitBranch(ExitAdd(HighPriorityCount))]
    /\ depth' = [depth EXCEPT ![g] = IF @ > 0 THEN @ - 1 ELSE 0]
    /\ obs' = [h \in Procs |->
                 IF ExitAdd(HighPriorityCount) = 0 /\ obs[h] = "open"
                 THEN "zeroed" ELSE obs[h]]
    /\ ret' = [ret EXCEPT ![g] = "none"]
    /\ UNCHANGED <<Mu, Cond, SpinWaitIterations, spin, gate, workload>>

\* A faulty lock: the exit waits until no goroutine is parked at the gate.
ExitLockAfterWaiters(g) ==
    /\ pc[g] = "exit_lock"
    /\ Mu = 0
    /\ \A h \in Procs : pc[h] \notin {"wait_parked", "fast_parked"}
    /\ Mu' = g
    /\ pc' = [pc EXCEPT ![g] = "exit_broadcast"]
    /\ NoCall
    /\ UNCHANGED <<HighPriorityCount, Cond, SpinWaitIterations, count, spin,
                   depth, ret, obs, gate, workload>>

\* Mu.Lock()
ExitLock(g) ==
    /\ pc[g] = "exit_lock"
    /\ Mu = 0
    /\ Mu' = g
    /\ pc' = [pc EXCEPT ![g] = "exit_broadcast"]
    /\ NoCall
    /\ UNCHANGED <<HighPriorityCount, Cond, SpinWaitIterations, count, spin,
                   depth, ret, obs, gate, workload>>

\* The program position a goroutine parked in Cond.Wait is woken to.
Woken(p) ==
    IF p = "wait_parked" THEN "wait_woken"
    ELSE IF p = "fast_parked" THEN "fast_woken" ELSE p

\* Cond.Broadcast(): every goroutine parked in Cond.Wait becomes runnable.
ExitBroadcast(g) ==
    /\ pc[g] = "exit_broadcast"
    /\ Cond' = {}
    /\ pc' = [h \in Procs |->
                IF h = g THEN "exit_unlock"
                ELSE IF h \in Cond THEN Woken(pc[h]) ELSE pc[h]]
    /\ NoCall
    /\ UNCHANGED <<HighPriorityCount, Mu, SpinWaitIterations, count, spin,
                   depth, ret, obs, gate, workload>>

\* A faulty exit: it returns without unlocking Mu.
ExitUnlockForgotten(g) ==
    /\ pc[g] = "exit_unlock"
    /\ pc' = [pc EXCEPT ![g] = "idle"]
    /\ count' = [count EXCEPT ![g] = 0]
    /\ NoCall
    /\ UNCHANGED <<HighPriorityCount, Mu, Cond, SpinWaitIterations, spin,
                   depth, ret, obs, gate, workload>>

\* Mu.Unlock()
ExitUnlock(g) ==
    /\ pc[g] = "exit_unlock"
    /\ Mu' = 0
    /\ pc' = [pc EXCEPT ![g] = "idle"]
    /\ count' = [count EXCEPT ![g] = 0]
    /\ NoCall
    /\ UNCHANGED <<HighPriorityCount, Cond, SpinWaitIterations, spin, depth,
                   ret, obs, gate, workload>>

\* HighPriorityCount.Store(0)
ExitStore(g) ==
    /\ pc[g] = "exit_store"
    /\ HighPriorityCount' = 0
    /\ pc' = [pc EXCEPT ![g] = "idle"]
    /\ count' = [count EXCEPT ![g] = 0]
    /\ ret' = [ret EXCEPT ![g] = "clamped"]
    /\ NoCall
    /\ UNCHANGED <<Mu, Cond, SpinWaitIterations, spin, depth, obs, gate,
                   workload>>

\* IsHighPriorityActive(): one atomic load.
IsHighPriorityActiveCall(g) ==
    /\ Begin(g, "IsActive")
    /\ ret' = [ret EXCEPT ![g] = IF IsHighPriorityActive THEN "true" ELSE "false"]
    /\ UNCHANGED <<HighPriorityCount, Mu, Cond, SpinWaitIterations, pc, count,
                   spin, depth, obs, gate, workload>>

\* MaybeYield: `if HighPriorityCount.Load() > 0`
MaybeYield(g) ==
    /\ Begin(g, "MaybeYield")
    /\ pc' = [pc EXCEPT ![g] = IF MaybeYieldCond(HighPriorityCount)
                               THEN "yield_gosched" ELSE "idle"]
    /\ ret' = [ret EXCEPT ![g] = IF MaybeYieldCond(HighPriorityCount)
                                 THEN "none" ELSE "yield_skipped"]
    /\ UNCHANGED <<HighPriorityCount, Mu, Cond, SpinWaitIterations, count,
                   spin, depth, obs, gate, workload>>

\* MaybeYield: runtime.Gosched()
MaybeYieldGosched(g) ==
    /\ pc[g] = "yield_gosched"
    /\ pc' = [pc EXCEPT ![g] = "idle"]
    /\ ret' = [ret EXCEPT ![g] = "yield_done"]
    /\ NoCall
    /\ UNCHANGED <<HighPriorityCount, Mu, Cond, SpinWaitIterations, count,
                   spin, depth, obs, gate, workload>>

\* MaybeYieldFast: `if HighPriorityCount.Load() > 0`
MaybeYieldFast(g) ==
    /\ Begin(g, "MaybeYieldFast")
    /\ pc' = [pc EXCEPT ![g] = IF MaybeYieldCond(HighPriorityCount)
                               THEN "yieldfast_gosched" ELSE "idle"]
    /\ ret' = [ret EXCEPT ![g] = IF MaybeYieldCond(HighPriorityCount)
                                 THEN "none" ELSE "yieldfast_skipped"]
    /\ UNCHANGED <<HighPriorityCount, Mu, Cond, SpinWaitIterations, count,
                   spin, depth, obs, gate, workload>>

\* A faulty yield: it lasts until no section is open.
MaybeYieldFastGoschedUntilClear(g) ==
    /\ pc[g] = "yieldfast_gosched"
    /\ HighPriorityCount = 0
    /\ pc' = [pc EXCEPT ![g] = "idle"]
    /\ ret' = [ret EXCEPT ![g] = "yieldfast_done"]
    /\ NoCall
    /\ UNCHANGED <<HighPriorityCount, Mu, Cond, SpinWaitIterations, count,
                   spin, depth, obs, gate, workload>>

\* MaybeYieldFast: runtime.Gosched()
MaybeYieldFastGosched(g) ==
    /\ pc[g] = "yieldfast_gosched"
    /\ pc' = [pc EXCEPT ![g] = "idle"]
    /\ ret' = [ret EXCEPT ![g] = "yieldfast_done"]
    /\ NoCall
    /\ UNCHANGED <<HighPriorityCount, Mu, Cond, SpinWaitIterations, count,
                   spin, depth, obs, gate, workload>>

\* WaitIfActive is called.
WaitIfActiveCall(g) ==
    /\ Begin(g, "WaitIfActive")
    /\ pc' = [pc EXCEPT ![g] = "wait_check"]
    /\ obs' = [obs EXCEPT ![g] = IF Open > 0 THEN "open" ELSE "clear"]
    /\ gate' = [gate EXCEPT ![g] = FALSE]
    /\ ret' = [ret EXCEPT ![g] = "none"]
    /\ UNCHANGED <<HighPriorityCount, Mu, Cond, SpinWaitIterations, count,
                   spin, depth, workload>>

\* WaitIfActive: `for HighPriorityCount.Load() > 0`
WaitIfActiveCheck(g) ==
    /\ pc[g] = "wait_check"
    /\ IF WaitIfActiveCond(HighPriorityCount)
       THEN /\ pc' = [pc EXCEPT ![g] = "wait_lock"]
            /\ ret' = ret
       ELSE /\ pc' = [pc EXCEPT ![g] = "idle"]
            /\ ret' = [ret EXCEPT ![g] = "wait_done"]
    /\ NoCall
    /\ UNCHANGED <<HighPriorityCount, Mu, Cond, SpinWaitIterations, count,
                   spin, depth, obs, gate, workload>>

\* WaitIfActive: Mu.Lock()
WaitIfActiveLock(g) ==
    /\ pc[g] = "wait_lock"
    /\ Mu = 0
    /\ Mu' = g
    /\ pc' = [pc EXCEPT ![g] = "wait_wait"]
    /\ gate' = [gate EXCEPT ![g] = TRUE]
    /\ NoCall
    /\ UNCHANGED <<HighPriorityCount, Cond, SpinWaitIterations, count, spin,
                   depth, ret, obs, workload>>

\* WaitIfActive: Cond.Wait(), first half: join the notify list, unlock Mu, park.
WaitIfActiveWait(g) ==
    /\ pc[g] = "wait_wait"
    /\ Cond' = Cond \cup {g}
    /\ Mu' = 0
    /\ pc' = [pc EXCEPT ![g] = "wait_parked"]
    /\ NoCall
    /\ UNCHANGED <<HighPriorityCount, SpinWaitIterations, count, spin, depth,
                   ret, obs, gate, workload>>

\* WaitIfActive: Cond.Wait(), second half: once woken, lock Mu again.
WaitIfActiveWake(g) ==
    /\ pc[g] = "wait_woken"
    /\ Mu = 0
    /\ Mu' = g
    /\ pc' = [pc EXCEPT ![g] = "wait_unlock"]
    /\ NoCall
    /\ UNCHANGED <<HighPriorityCount, Cond, SpinWaitIterations, count, spin,
                   depth, ret, obs, gate, workload>>

\* A faulty wake: the call returns without reading the counter again (an `if`
\* in the place of the `for`).
WaitIfActiveUnlockReturns(g) ==
    /\ pc[g] = "wait_unlock"
    /\ Mu' = 0
    /\ pc' = [pc EXCEPT ![g] = "idle"]
    /\ ret' = [ret EXCEPT ![g] = "wait_done"]
    /\ NoCall
    /\ UNCHANGED <<HighPriorityCount, Cond, SpinWaitIterations, count, spin,
                   depth, obs, gate, workload>>

\* WaitIfActive: Mu.Unlock(), back to the loop condition.
WaitIfActiveUnlock(g) ==
    /\ pc[g] = "wait_unlock"
    /\ Mu' = 0
    /\ pc' = [pc EXCEPT ![g] = "wait_check"]
    /\ NoCall
    /\ UNCHANGED <<HighPriorityCount, Cond, SpinWaitIterations, count, spin,
                   depth, ret, obs, gate, workload>>

\* WaitIfActiveFast is called: `for range SpinWaitIterations` fixes the budget.
WaitIfActiveFastCall(g) ==
    /\ Begin(g, "WaitIfActiveFast")
    /\ spin' = [spin EXCEPT ![g] = SpinBudget(SpinWaitIterations)]
    /\ pc' = [pc EXCEPT ![g] = IF SpinBudget(SpinWaitIterations) = 0
                               THEN "fast_check" ELSE "fast_spin"]
    /\ obs' = [obs EXCEPT ![g] = IF Open > 0 THEN "open" ELSE "clear"]
    /\ gate' = [gate EXCEPT ![g] = FALSE]
    /\ ret' = [ret EXCEPT ![g] = "none"]
    /\ UNCHANGED <<HighPriorityCount, Mu, Cond, SpinWaitIterations, count,
                   depth, workload>>

\* WaitIfActiveFast: the spin check `if HighPriorityCount.Load() == 0 { return }`
WaitIfActiveFastSpin(g) ==
    /\ pc[g] = "fast_spin"
    /\ IF SpinClear(HighPriorityCount)
       THEN /\ pc' = [pc EXCEPT ![g] = "idle"]
            /\ spin' = [spin EXCEPT ![g] = 0]
            /\ ret' = [ret EXCEPT ![g] = "fast_spin_clear"]
       ELSE /\ pc' = [pc EXCEPT ![g] = "fast_gosched"]
            /\ spin' = spin
            /\ ret' = ret
    /\ NoCall
    /\ UNCHANGED <<HighPriorityCount, Mu, Cond, SpinWaitIterations, count,
                   depth, obs, gate, workload>>

\* A faulty spin: the budget is read again in every iteration, so that the call
\* never falls back while the configured budget is positive.
WaitIfActiveFastGoschedRereads(g) ==
    /\ pc[g] = "fast_gosched"
    /\ spin' = [spin EXCEPT ![g] = SpinBudget(SpinWaitIterations)]
    /\ pc' = [pc EXCEPT ![g] = IF SpinBudget(SpinWaitIterations) = 0
                               THEN "fast_check" ELSE "fast_spin"]
    /\ NoCall
    /\ UNCHANGED <<HighPriorityCount, Mu, Cond, SpinWaitIterations, count,
                   depth, ret, obs, gate, workload>>

\* WaitIfActiveFast: runtime.Gosched(), then the next iteration or the fallback.
WaitIfActiveFastGosched(g) ==
    /\ pc[g] = "fast_gosched"
    /\ spin' = [spin EXCEPT ![g] = @ - 1]
    /\ pc' = [pc EXCEPT ![g] = IF spin[g] - 1 = 0 THEN "fast_check"
                               ELSE "fast_spin"]
    /\ NoCall
    /\ UNCHANGED <<HighPriorityCount, Mu, Cond, SpinWaitIterations, count,
                   depth, ret, obs, gate, workload>>

\* WaitIfActiveFast: the fallback `for HighPriorityCount.Load() > 0`
WaitIfActiveFastCheck(g) ==
    /\ pc[g] = "fast_check"
    /\ IF WaitIfActiveFastCond(HighPriorityCount)
       THEN /\ pc' = [pc EXCEPT ![g] = "fast_lock"]
            /\ ret' = ret
       ELSE /\ pc' = [pc EXCEPT ![g] = "idle"]
            /\ ret' = [ret EXCEPT ![g] = "fast_done"]
    /\ NoCall
    /\ UNCHANGED <<HighPriorityCount, Mu, Cond, SpinWaitIterations, count,
                   spin, depth, obs, gate, workload>>

\* WaitIfActiveFast: Mu.Lock()
WaitIfActiveFastLock(g) ==
    /\ pc[g] = "fast_lock"
    /\ Mu = 0
    /\ Mu' = g
    /\ pc' = [pc EXCEPT ![g] = "fast_wait"]
    /\ gate' = [gate EXCEPT ![g] = TRUE]
    /\ NoCall
    /\ UNCHANGED <<HighPriorityCount, Cond, SpinWaitIterations, count, spin,
                   depth, ret, obs, workload>>

\* WaitIfActiveFast: Cond.Wait(), first half.
WaitIfActiveFastWait(g) ==
    /\ pc[g] = "fast_wait"
    /\ Cond' = Cond \cup {g}
    /\ Mu' = 0
    /\ pc' = [pc EXCEPT ![g] = "fast_parked"]
    /\ NoCall
    /\ UNCHANGED <<HighPriorityCount, SpinWaitIterations, count, spin, depth,
                   ret, obs, gate, workload>>

\* WaitIfActiveFast: Cond.Wait(), second half.
WaitIfActiveFastWake(g) ==
    /\ pc[g] = "fast_woken"
    /\ Mu = 0
    /\ Mu' = g
    /\ pc' = [pc EXCEPT ![g] = "fast_unlock"]
    /\ NoCall
    /\ UNCHANGED <<HighPriorityCount, Cond, SpinWaitIterations, count, spin,
                   depth, ret, obs, gate, workload>>

\* WaitIfActiveFast: Mu.Unlock(), back to the fallback loop condition.
WaitIfActiveFastUnlock(g) ==
    /\ pc[g] = "fast_unlock"
    /\ Mu' = 0
    /\ pc' = [pc EXCEPT ![g] = "fast_check"]
    /\ NoCall
    /\ UNCHANGED <<HighPriorityCount, Cond, SpinWaitIterations, count, spin,
                   depth, ret, obs, gate, workload>>

\* --------------------------------------------------------- context adapters

\* What a context.Context passed to a call can be at the moment of the call:
\* not done, cancelled explicitly, or past its deadline.
Tokens == {"live", "Canceled", "DeadlineExceeded"}

\* The ways a context that is not done can fire.
Firings == {"Canceled", "DeadlineExceeded"}

\* `<-ctx.Done()` is ready: the context has been cancelled or has expired.
Done(k) == k \in Firings

\* A faulty error: every fired context is reported as cancelled.
ErrAlwaysCanceled(k) == IF k = "live" THEN "nil" ELSE "Canceled"

\* `ctx.Err()`: nil while the context is not done, afterwards the way it fired.
Err(k) == IF k = "live" THEN "nil" ELSE k

\* A faulty poll: the counter is not looked at.
PollClearAlways(c) == TRUE

\* The poll of WaitIfActiveWithContext: `HighPriorityCount.Load() == 0`.
PollClear(c) == c = 0

MaybeYieldWithContextPcs == {"ctxyield_load", "ctxyield_gosched"}

WaitIfActiveWithContextPcs == {"ctxwait_select", "ctxwait_poll"}

\* A faulty select: the default case is taken although ctx.Done() is ready.
SelectDoneNever(k) == FALSE

\* MaybeYieldWithContext's `select { case <-ctx.Done(): ... default: ... }`:
\* the default case runs only when no other case is ready.
SelectDone(k) == Done(k)

\* MaybeYieldWithContext(ctx) is called and makes its select.
MaybeYieldWithContext(g) ==
    \E k \in Tokens :
        /\ Called(g, "MaybeYieldWithContext")
        /\ UNCHANGED flag
        /\ ctx' = [ctx EXCEPT ![g] = k]
        /\ IF SelectDone(k)
           THEN /\ pc' = pc
                /\ ret' = [ret EXCEPT ![g] = Err(k)]
           ELSE /\ pc' = [pc EXCEPT ![g] = "ctxyield_load"]
                /\ ret' = [ret EXCEPT ![g] = "none"]
        /\ UNCHANGED <<HighPriorityCount, Mu, Cond, SpinWaitIterations, count,
                       spin, depth, obs, gate, workload, tick, traceFunc,
                       events>>

\* MaybeYieldWithContext, default case: MaybeYield()'s load of the counter.
MaybeYieldWithContextLoad(g) ==
    /\ pc[g] = "ctxyield_load"
    /\ IF MaybeYieldCond(HighPriorityCount)
       THEN /\ pc' = [pc EXCEPT ![g] = "ctxyield_gosched"]
            /\ ret' = ret
       ELSE /\ pc' = [pc EXCEPT ![g] = "idle"]
            /\ ret' = [ret EXCEPT ![g] = "nil"]
    /\ Quiet
    /\ UNCHANGED <<HighPriorityCount, Mu, Cond, SpinWaitIterations, count,
                   spin, depth, obs, gate, workload, ctx, tick, traceFunc,
                   events>>

\* A faulty return: the context is looked at again after the yield.
MaybeYieldWithContextGoschedRechecks(g) ==
    /\ pc[g] = "ctxyield_gosched"
    /\ pc' = [pc EXCEPT ![g] = "idle"]
    /\ ret' = [ret EXCEPT ![g] = Err(ctx[g])]
    /\ Quiet
    /\ UNCHANGED <<HighPriorityCount, Mu, Cond, SpinWaitIterations, count,
                   spin, depth, obs, gate, workload, ctx, tick, traceFunc,
                   events>>

\* MaybeYieldWithContext, default case: MaybeYield()'s runtime.Gosched(), then
\* `return nil`.
MaybeYieldWithContextGosched(g) ==
    /\ pc[g] = "ctxyield_gosched"
    /\ pc' = [pc EXCEPT ![g] = "idle"]
    /\ ret' = [ret EXCEPT ![g] = "nil"]
    /\ Quiet
    /\ UNCHANGED <<HighPriorityCount, Mu, Cond, SpinWaitIterations, count,
                   spin, depth, obs, gate, workload, ctx, tick, traceFunc,
                   events>>

\* The context of a call in progress fires: its owner cancels it, or its
\* deadline passes.
Fire(g) ==
    \E k \in Firings :
        /\ pc[g] \in MaybeYieldWithContextPcs \cup WaitIfActiveWithContextPcs
        /\ ctx[g] = "live"
        /\ ctx' = [ctx EXCEPT ![g] = k]
        /\ Quiet
        /\ UNCHANGED <<HighPriorityCount, Mu, Cond, SpinWaitIterations, pc,
                       count, spin, depth, ret, obs, gate, workload, tick,
                       traceFunc, events>>

\* A faulty entry: the counter is polled before the first tick.
WaitIfActiveWithContextPollsFirst(g) ==
    \E k \in Tokens :
        /\ Called(g, "WaitIfActiveWithContext")
        /\ UNCHANGED flag
        /\ ctx' = [ctx EXCEPT ![g] = k]
        /\ tick' = [tick EXCEPT ![g] = FALSE]
        /\ pc' = [pc EXCEPT ![g] = "ctxwait_poll"]
        /\ ret' = [ret EXCEPT ![g] = "none"]
        /\ UNCHANGED <<HighPriorityCount, Mu, Cond, SpinWaitIterations, count,
                       spin, depth, obs, gate, workload, traceFunc, events>>

\* A faulty call: it waits at the Wait Gate as WaitIfActive does, and is woken
\* by the broadcast.
WaitIfActiveWithContextRecvParks(g) ==
    /\ pc[g] = "ctxwait_select"
    /\ tick[g]
    /\ tick' = [tick EXCEPT ![g] = FALSE]
    /\ pc' = [pc EXCEPT ![g] = "ctxwait_poll"]
    /\ Cond' = Cond \cup {g}
    /\ Quiet
    /\ UNCHANGED <<HighPriorityCount, Mu, SpinWaitIterations, count, spin,
                   depth, ret, obs, gate, workload, ctx, traceFunc, events>>

\* WaitIfActiveWithContext(ctx) is called: `ticker := time.NewTicker(...)`.
WaitIfActiveWithContext(g) ==
    \E k \in Tokens :
        /\ Called(g, "WaitIfActiveWithContext")
        /\ UNCHANGED flag
        /\ ctx' = [ctx EXCEPT ![g] = k]
        /\ tick' = [tick EXCEPT ![g] = FALSE]
        /\ pc' = [pc EXCEPT ![g] = "ctxwait_select"]
        /\ ret' = [ret EXCEPT ![g] = "none"]
        /\ UNCHANGED <<HighPriorityCount, Mu, Cond, SpinWaitIterations, count,
                       spin, depth, obs, gate, workload, traceFunc, events>>

\* A faulty ticker: stopped right after its creation (ticker.Stop() without
\* defer), it never sends.
WaitIfActiveWithContextTickStopped(g) ==
    /\ pc[g] \in WaitIfActiveWithContextPcs
    /\ FALSE
    /\ UNCHANGED vars

\* A millisecond passes: the ticker sends on ticker.C, a channel that holds one
\* tick (a tick that finds the channel full is dropped).
WaitIfActiveWithContextTick(g) ==
    /\ pc[g] \in WaitIfActiveWithContextPcs
    /\ ~tick[g]
    /\ tick' = [tick EXCEPT ![g] = TRUE]
    /\ Quiet
    /\ UNCHANGED <<HighPriorityCount, Mu, Cond, SpinWaitIterations, pc, count,
                   spin, depth, ret, obs, gate, workload, ctx, traceFunc,
                   events>>

\* WaitIfActiveWithContext: `case <-ctx.Done(): return ctx.Err()`, and the
\* deferred ticker.Stop().
WaitIfActiveWithContextDone(g) ==
    /\ pc[g] = "ctxwait_select"
    /\ Done(ctx[g])
    /\ pc' = [pc EXCEPT ![g] = "idle"]
    /\ ret' = [ret EXCEPT ![g] = Err(ctx[g])]
    /\ tick' = [tick EXCEPT ![g] = FALSE]
    /\ Quiet
    /\ UNCHANGED <<HighPriorityCount, Mu, Cond, SpinWaitIterations, count,
                   spin, depth, obs, gate, workload, ctx, traceFunc, events>>

\* WaitIfActiveWithContext: `case <-ticker.C:` receives the pending tick.
WaitIfActiveWithContextRecv(g) ==
    /\ pc[g] = "ctxwait_select"
    /\ tick[g]
    /\ tick' = [tick EXCEPT ![g] = FALSE]
    /\ pc' = [pc EXCEPT ![g] = "ctxwait_poll"]
    /\ Quiet
    /\ UNCHANGED <<HighPriorityCount, Mu, Cond, SpinWaitIterations, count,
                   spin, depth, ret, obs, gate, workload, ctx, traceFunc,
                   events>>

\* A faulty poll: a counter found nonzero is cleared, and the call returns.
WaitIfActiveWithContextPollResets(g) ==
    /\ pc[g] = "ctxwait_poll"
    /\ HighPriorityCount' = 0
    /\ pc' = [pc EXCEPT ![g] = "idle"]
    /\ ret' = [ret EXCEPT ![g] = "nil"]
    /\ tick' = [tick EXCEPT ![g] = FALSE]
    /\ Quiet
    /\ UNCHANGED <<Mu, Cond, SpinWaitIterations, count, spin, depth, obs, gate,
                   workload, ctx, traceFunc, events>>

\* WaitIfActiveWithContext: `if HighPriorityCount.Load() == 0 { return nil }`,
\* else back to the select; on return the deferred ticker.Stop().
WaitIfActiveWithContextPoll(g) ==
    /\ pc[g] = "ctxwait_poll"
    /\ IF PollClear(HighPriorityCount)
       THEN /\ pc' = [pc EXCEPT ![g] = "idle"]
            /\ ret' = [ret EXCEPT ![g] = "nil"]
            /\ tick' = [tick EXCEPT ![g] = FALSE]
       ELSE /\ pc' = [pc EXCEPT ![g] = "ctxwait_select"]
            /\ ret' = ret
            /\ tick' = tick
    /\ Quiet
    /\ UNCHANGED <<HighPriorityCount, Mu, Cond, SpinWaitIterations, count,
                   spin, depth, obs, gate, workload, ctx, traceFunc, events>>

\* ----------------------------------------------------------- configuration

\* SetSpinWaitIterations(n): `SpinWaitIterations = n`
SetSpinWaitIterations(g) ==
    \E n \in 0..MaxSpin :
        /\ Begin(g, "SetSpinWaitIterations")
        /\ SpinWaitIterations' = n
        /\ ret' = [ret EXCEPT ![g] = IF n # SpinWaitIterations
                                     THEN "spin_changed" ELSE "none"]
        /\ UNCHANGED <<HighPriorityCount, Mu, Cond, pc, count, spin, depth,
                       obs, gate, workload>>

\* ------------------------------------------------------------- trace sink

\* What SetTraceFunc can be given: nil, or a function.
TraceFuncs == {"nil", "handler"}

\* SetTraceFunc(fn): `traceFunc.Store(fn)`
SetTraceFunc(g) ==
    \E fn \in TraceFuncs :
        /\ Called(g, "SetTraceFunc")
        /\ UNCHANGED flag
        /\ traceFunc' = fn
        /\ ret' = [ret EXCEPT ![g] = IF fn = "nil" /\ traceFunc # "nil"
                                     THEN "handler_removed" ELSE "none"]
        /\ UNCHANGED <<HighPriorityCount, Mu, Cond, SpinWaitIterations, pc,
                       count, spin, depth, obs, gate, workload, ctx, tick,
                       events>>

\* ------------------------------------------------------------ priority flag

\* A faulty default: a flag never set reads as high priority.
GetHighPriorityDefaultTrue(v) == IF v \in {"true", "false"} THEN v ELSE "true"

\* GetHighPriority(): `if high, ok := IsHighPriority.Load().(bool); ok { return
\* high }; return false`.
GetHighPriority(v) == IF v \in {"true", "false"} THEN v ELSE "false"

\* SetHighPriority(high): `IsHighPriority.Store(high)`
SetHighPriority(g) ==
    \E high \in {"true", "false"} :
        /\ Called(g, "SetHighPriority")
        /\ IsHighPriority' = high
        /\ declared' = [declared EXCEPT ![g] = high]
        /\ setter' = g
        /\ ret' = [ret EXCEPT ![g] = "none"]
        /\ UNCHANGED <<HighPriorityCount, Mu, Cond, SpinWaitIterations, pc,
                       count, spin, depth, obs, gate, workload>>
        /\ UNCHANGED adapters

\* GetHighPriority() is called and returns.
GetHighPriorityCall(g) ==
    /\ Called(g, "GetHighPriority")
    /\ ret' = [ret EXCEPT ![g] = GetHighPriority(IsHighPriority)]
    /\ UNCHANGED <<HighPriorityCount, Mu, Cond, SpinWaitIterations, pc, count,
                   spin, depth, obs, gate, workload>>
    /\ UNCHANGED adapters
    /\ UNCHANGED flag

\* runtime.Stack(b, false): the first words of the stack trace of goroutine g,
\* "goroutine N [status]:", with N the positive id the runtime gave it.
Stack(g) == <<"goroutine", g, "[running]:">>

\* getGoroutineID(): Sscanf(stack, "goroutine %d", &id); 0 if that fails.
getGoroutineID(g) ==
    LET b == Stack(g)
    IN  IF Len(b) >= 2 /\ b[1] = "goroutine" THEN b[2] ELSE 0

\* A faulty guard: the handler is called without the nil check.
traceYieldEventUnguarded(g, reason) ==
    Append(events, [GoroutineID |-> getGoroutineID(g), Reason |-> reason,
                    IsHighPriority |-> GetHighPriority(IsHighPriority)])

\* traceYieldEvent(reason, duration) called by goroutine g: the events the
\* handler has been handed once the call returns.  No function of the package
\* calls it.
traceYieldEvent(g, reason) ==
    IF traceFunc # "nil"
    THEN Append(events, [GoroutineID |-> getGoroutineID(g), Reason |-> reason,
                         IsHighPriority |-> GetHighPriority(IsHighPriority)])
    ELSE events

\* ------------------------------------------------------------ specifications

\* The package's state at process start, before any goroutine has made a call.
Start ==
    /\ HighPriorityCount = 0
    /\ Mu = 0
    /\ Cond = {}
    /\ pc = [g \in Procs |-> "idle"]
    /\ count = [g \in Procs |-> 0]
    /\ spin = [g \in Procs |-> 0]
    /\ depth = [g \in Procs |-> 0]
    /\ ret = [g \in Procs |-> "none"]
    /\ obs = [g \in Procs |-> "clear"]
    /\ gate = [g \in Procs |-> FALSE]
    /\ step = [g \in Procs |-> 0]
    /\ started = 0
    /\ call = [g \in Procs |-> "none"]
    /\ ctx = [g \in Procs |-> "none"]
    /\ tick = [g \in Procs |-> FALSE]
    /\ events = <<>>
    /\ IsHighPriority = "unset"
    /\ declared = [g \in Procs |-> "unset"]
    /\ setter = 0

\* Any use of the package, unmatched ExitHighPriority calls included.
Init ==
    /\ Start
    /\ SpinWaitIterations \in 0..MaxSpin
    /\ traceFunc = "nil"
    /\ workload = "free"
    /\ left = MaxCalls

\* Balanced use: a goroutine calls ExitHighPriority only after its own Enter.
InitBalanced ==
    /\ Start
    /\ SpinWaitIterations \in 0..MaxSpin
    /\ traceFunc = "nil"
    /\ workload = "balanced"
    /\ left = MaxCalls

\* Any use of the package, the context adapters and the trace sink included; a
\* trace handler may have been installed before the run starts.
InitContext ==
    /\ Start
    /\ SpinWaitIterations \in 0..MaxSpin
    /\ traceFunc \in TraceFuncs
    /\ workload = "context"
    /\ left = MaxContextCalls

\* The sections and the context adapters alone, as TestContextAwareFunctions
\* and TestContextCancellation use them: no trace handler, the spin budget as
\* configured.
InitAdapters ==
    /\ Start
    /\ SpinWaitIterations = MaxSpin
    /\ traceFunc = "nil"
    /\ workload = "context"
    /\ left = MaxContextCalls

\* TestRaceConditions: every goroutine runs the same loop.
InitRace ==
    /\ Start
    /\ SpinWaitIterations \in 0..MaxSpin
    /\ traceFunc = "nil"
    /\ workload = "race"
    /\ left = 0

\* TestGoroutineIDTracking: every goroutine opens a section, yields and closes
\* it, with a handler installed before the goroutines start.
InitIds ==
    /\ Start
    /\ SpinWaitIterations \in 0..MaxSpin
    /\ traceFunc = "handler"
    /\ workload = "ids"
    /\ left = 0

\* TestConfigurationChanges: the spin budget is reconfigured while the package
\* is in use.
InitConfig ==
    /\ Start
    /\ SpinWaitIterations \in 0..MaxSpin
    /\ traceFunc = "nil"
    /\ workload = "config"
    /\ left = MaxCalls

\* examples/priority_levels: goroutines declare their priority and use the
\* protocol; no trace handler, the spin budget as configured.
InitFlags ==
    /\ Start
    /\ SpinWaitIterations = MaxSpin
    /\ traceFunc = "nil"
    /\ workload = "flags"
    /\ left = MaxContextCalls

\* Sections and waiters at the Wait Gate, unmatched exits included.
InitGate ==
    /\ Start
    /\ SpinWaitIterations \in 0..MaxSpin
    /\ traceFunc = "nil"
    /\ workload = "gate"
    /\ left = MaxContextCalls

Sections(g) ==
    \/ EnterHighPriority(g)
    \/ ExitHighPriority(g)
    \/ ExitLock(g)
    \/ ExitBroadcast(g)
    \/ ExitUnlock(g)

Yields(g) ==
    \/ IsHighPriorityActiveCall(g)
    \/ MaybeYield(g)
    \/ MaybeYieldGosched(g)
    \/ MaybeYieldFast(g)
    \/ MaybeYieldFastGosched(g)

Waits(g) ==
    \/ WaitIfActiveCall(g)
    \/ WaitIfActiveCheck(g)
    \/ WaitIfActiveLock(g)
    \/ WaitIfActiveWait(g)
    \/ WaitIfActiveWake(g)
    \/ WaitIfActiveUnlock(g)

FastWaits(g) ==
    \/ WaitIfActiveFastCall(g)
    \/ WaitIfActiveFastSpin(g)
    \/ WaitIfActiveFastGosched(g)
    \/ WaitIfActiveFastCheck(g)
    \/ WaitIfActiveFastLock(g)
    \/ WaitIfActiveFastWait(g)
    \/ WaitIfActiveFastWake(g)
    \/ WaitIfActiveFastUnlock(g)

ContextYields(g) ==
    \/ MaybeYieldWithContext(g)
    \/ MaybeYieldWithContextLoad(g)
    \/ MaybeYieldWithContextGosched(g)
    \/ Fire(g)

Flags(g) ==
    \/ SetHighPriority(g)
    \/ GetHighPriorityCall(g)

ContextWaits(g) ==
    \/ WaitIfActiveWithContext(g)
    \/ WaitIfActiveWithContextTick(g)
    \/ WaitIfActiveWithContextDone(g)
    \/ WaitIfActiveWithContextRecv(g)
    \/ WaitIfActiveWithContextPoll(g)

Next ==
    \E g \in Procs :
        Sections(g) \/ ExitStore(g) \/ Yields(g) \/ Waits(g) \/ FastWaits(g)

NextBalanced ==
    \E g \in Procs : Sections(g) \/ Yields(g) \/ Waits(g) \/ FastWaits(g)

NextRace ==
    \E g \in Procs : Sections(g) \/ Yields(g) \/ FastWaits(g)

\* The whole package: the counter protocol, the context adapters, the trace sink.
NextContext ==
    \E g \in Procs :
        \/ Sections(g) \/ ExitStore(g) \/ Yields(g) \/ Waits(g) \/ FastWaits(g)
        \/ ContextYields(g) \/ ContextWaits(g) \/ SetTraceFunc(g)

NextIds ==
    \E g \in Procs : Sections(g) \/ MaybeYield(g) \/ MaybeYieldGosched(g)

NextConfig ==
    \E g \in Procs :
        Sections(g) \/ ExitStore(g) \/ FastWaits(g) \/ SetSpinWaitIterations(g)

\* The counter protocol and the context adapters, used by goroutines that also
\* declare and read their priority.
NextFlags ==
    \E g \in Procs :
        \/ Sections(g) \/ ExitStore(g) \/ Yields(g) \/ Waits(g) \/ FastWaits(g)
        \/ ContextYields(g) \/ ContextWaits(g) \/ Flags(g)

NextGate ==
    \E g \in Procs : Sections(g) \/ ExitStore(g) \/ Waits(g) \/ FastWaits(g)

NextAdapters ==
    \E g \in Procs :
        Sections(g) \/ ExitStore(g) \/ ContextYields(g) \/ ContextWaits(g)

Spec == Init /\ [][Next]_vars

SpecAdapters == InitAdapters /\ [][NextAdapters]_vars

SpecContext == InitContext /\ [][NextContext]_vars

SpecBalanced == InitBalanced /\ [][NextBalanced]_vars

SpecRace == InitRace /\ [][NextRace]_vars

SpecIds == InitIds /\ [][NextIds]_vars

SpecConfig == InitConfig /\ [][NextConfig]_vars

SpecGate == InitGate /\ [][NextGate]_vars

SpecFlags == InitFlags /\ [][NextFlags]_vars

\* -------------------------------------------------------------- scheduling

\* The steps goroutine g takes inside a call it has made.
Run(g) ==
    \/ ExitLock(g) \/ ExitBroadcast(g) \/ ExitUnlock(g) \/ ExitStore(g)
    \/ MaybeYieldGosched(g) \/ MaybeYieldFastGosched(g)
    \/ WaitIfActiveCheck(g) \/ WaitIfActiveLock(g) \/ WaitIfActiveWait(g)
    \/ WaitIfActiveWake(g) \/ WaitIfActiveUnlock(g)
    \/ WaitIfActiveFastSpin(g) \/ WaitIfActiveFastGosched(g)
    \/ WaitIfActiveFastCheck(g) \/ WaitIfActiveFastLock(g)
    \/ WaitIfActiveFastWait(g) \/ WaitIfActiveFastWake(g)
    \/ WaitIfActiveFastUnlock(g)

\* The steps in which goroutine g acquires Mu.
Acquire(g) ==
    \/ ExitLock(g) \/ WaitIfActiveLock(g) \/ WaitIfActiveWake(g)
    \/ WaitIfActiveFastLock(g) \/ WaitIfActiveFastWake(g)

\* The Go scheduler runs every runnable goroutine, and sync.Mutex hands the lock
\* to a goroutine that keeps waiting for it (starvation mode).  Whether a
\* goroutine makes another call is up to the program: no fairness on calls.
Fairness == \A g \in Procs : WF_vars(Run(g)) /\ SF_vars(Acquire(g))

FairBalanced == SpecBalanced /\ Fairness

FairGate == SpecGate /\ Fairness

\* The steps goroutine g takes inside a call of a context adapter, the ticks of
\* its ticker included: time passes.
RunContext(g) ==
    \/ MaybeYieldWithContextLoad(g) \/ MaybeYieldWithContextGosched(g)
    \/ WaitIfActiveWithContextTick(g) \/ WaitIfActiveWithContextDone(g)
    \/ WaitIfActiveWithContextRecv(g) \/ WaitIfActiveWithContextPoll(g)

\* A select with several ready cases picks one of them uniformly at random: a
\* case that is ready again and again is eventually picked.
FairnessContext ==
    \A g \in Procs :
        WF_vars(RunContext(g)) /\ SF_vars(WaitIfActiveWithContextDone(g))

FairAdapters == SpecAdapters /\ FairnessContext

\* ------------------------------------------------------------------ claims

WaitIfActivePcs ==
    {"wait_check", "wait_lock", "wait_wait", "wait_parked", "wait_woken",
     "wait_unlock"}

WaitIfActiveFastPcs ==
    {"fast_spin", "fast_gosched", "fast_check", "fast_lock", "fast_wait",
     "fast_parked", "fast_woken", "fast_unlock"}

\* C1: under balanced use the counter equals the number of open sections in
\* every reachable state; IsHighPriorityActive is true exactly while a section
\* is open, in particular it never returns false to a goroutine inside its own
\* section; once every section is closed the counter is 0.
CounterEqualsOpenSections ==
    /\ HighPriorityCount = Open
    /\ IsHighPriorityActive <=> Open > 0
    /\ \A g \in Procs : depth[g] > 0 => ret[g] # "false"

\* Two goroutines hold a section each, and one of them has asked.
NestedSectionsSeenActive ==
    \E g, h \in Procs :
        g # h /\ depth[g] > 0 /\ depth[h] > 0 /\ ret[g] = "true"
        /\ HighPriorityCount = 2

\* C2: under balanced use and fair scheduling, if the counter eventually stays
\* at zero, every goroutine that called WaitIfActive eventually returns.
WaitIfActiveEventuallyReturns ==
    \A g \in Procs :
        <>[](HighPriorityCount = 0) => []<>(pc[g] \notin WaitIfActivePcs)

\* C3: under balanced use, a WaitIfActive call that started while a section was
\* open returns only on reading the counter as not greater than zero, and only
\* after an ExitHighPriority has taken the counter to exactly zero.
WaitIfActiveReturnsOnlyAfterZero ==
    [][\A g \in Procs :
          (pc[g] \in WaitIfActivePcs /\ pc'[g] = "idle") =>
              /\ HighPriorityCount <= 0
              /\ obs[g] # "open"]_vars

\* A WaitIfActive call that started inside a section, parked, and returned after
\* the exit to zero.
WaitIfActiveReturnedAfterExit ==
    \E g \in Procs : ret[g] = "wait_done" /\ obs[g] = "zeroed" /\ gate[g]

\* No call is in progress except goroutines parked in Cond.Wait, no section is
\* open and the run makes no further call: nothing will change any more.
Settled ==
    /\ \A g \in Procs : pc[g] \in {"idle", "wait_parked", "fast_parked"}
    /\ Open = 0
    /\ left = 0

\* The goroutines whose current or last call is a WaitIfActive that started
\* while a section was open.
SectionWaiters ==
    {g \in Procs : /\ obs[g] # "clear"
                   /\ pc[g] \in WaitIfActivePcs \/ ret[g] = "wait_done"}

\* C4: when several goroutines are inside WaitIfActive and the last open section
\* is exited, with the counter staying at zero afterwards, every one of them
\* returns: none is left parked.
AllWaitersReleasedByLastExit ==
    (Settled /\ HighPriorityCount = 0 /\ Cardinality(SectionWaiters) >= 2) =>
        \A g \in SectionWaiters : pc[g] = "idle"

\* C5: unmatched ExitHighPriority calls leave no negative counter behind: the
\* counter is negative only while such an exit stands before its reset, and once
\* every call has completed and every section is closed the counter is 0 and
\* IsHighPriorityActive is false.
ExtraExitsSettleAtZero ==
    /\ (\A g \in Procs : pc[g] # "exit_store") => HighPriorityCount >= 0
    /\ ((\A g \in Procs : pc[g] = "idle") /\ Open = 0) =>
           (HighPriorityCount = 0 /\ ~IsHighPriorityActive)

\* An unmatched exit has made its reset, a section has been entered and exited,
\* and every call has completed.
ExtraExitCompleted ==
    /\ \E g \in Procs : ret[g] = "clamped"
    /\ \A g \in Procs : pc[g] = "idle"
    /\ Open = 0
    /\ left = 0

\* The goroutines whose next step is an atomic load of the counter.
Readers == {g \in Procs : pc[g] \in {"wait_check", "fast_spin", "fast_check"}}

\* C6: no reader ever observes a negative counter: whenever a goroutine is about
\* to load the counter, the value it will read is >= 0.
CounterNeverObservedNegative ==
    Readers # {} => HighPriorityCount >= 0

\* C7: Cond is broadcast only by an ExitHighPriority whose decrement returned
\* exactly zero; parked goroutines are woken by nothing else.
BroadcastOnlyOnZero ==
    /\ [](\A g \in Procs :
            pc[g] \in {"exit_lock", "exit_broadcast", "exit_unlock"} =>
                count[g] = 0)
    /\ [][(\E h \in Cond : h \notin Cond') =>
             \E g \in Procs : /\ pc[g] = "exit_broadcast"
                               /\ pc'[g] = "exit_unlock"
                               /\ count[g] = 0]_vars

\* An exit to zero has broadcast and woken a parked waiter.
BroadcastWokeWaiter ==
    \E g, h \in Procs :
        /\ pc[g] = "exit_unlock" /\ count[g] = 0
        /\ pc[h] \in {"wait_woken", "fast_woken"}

\* C8: a spin check of WaitIfActiveFast that reads the counter as zero returns
\* at once, and the call has then never acquired Mu nor waited on Cond.
SpinReturnsWithoutGate ==
    /\ [](\A g \in Procs : ret[g] = "fast_spin_clear" => ~gate[g])
    /\ [][\A g \in Procs :
             (pc[g] = "fast_spin" /\ pc'[g] # "fast_spin"
                /\ HighPriorityCount = 0) =>
                 (pc'[g] = "idle" /\ ret'[g] = "fast_spin_clear"
                    /\ Mu' = Mu /\ Cond' = Cond)]_vars

\* A WaitIfActiveFast call that started inside a section and returned from its
\* spin loop once the section was exited.
SpinReturnedAfterExit ==
    \E g \in Procs :
        ret[g] = "fast_spin_clear" /\ obs[g] = "zeroed" /\ ~gate[g]

\* C9: under balanced use and fair scheduling, a WaitIfActiveFast call whose
\* spin budget runs out falls back to the blocking wait and eventually returns,
\* if the counter eventually stays at zero.
WaitIfActiveFastEventuallyReturns ==
    \A g \in Procs :
        (SpinWaitIterations > 0 /\ <>[](HighPriorityCount = 0)) =>
            []<>(pc[g] \notin WaitIfActiveFastPcs)

\* The calls each goroutine of TestRaceConditions makes.
RaceTotal == MaxIter * Len(RaceSeq)

\* C10: the TestRaceConditions workload never deadlocks: with a spin budget to
\* exhaust, a goroutine is never parked with every other goroutine either parked
\* or finished.
RaceWorkloadNeverDeadlocks ==
    (SpinWaitIterations > 0 /\ \E g \in Procs : pc[g] = "fast_parked") =>
        \E h \in Procs :
            /\ pc[h] # "fast_parked"
            /\ ~(pc[h] = "idle" /\ step[h] = RaceTotal)

\* C11: under fair scheduling, a WaitIfActiveWithContext call whose context has
\* fired while the counter stays nonzero from then on eventually returns, and
\* what it returns is the error of the way the context fired: Canceled for a
\* cancelled context, DeadlineExceeded for an expired one.
WaitIfActiveWithContextReturnsTokenError ==
    \A g \in Procs : \A k \in Firings :
        []((/\ pc[g] \in WaitIfActiveWithContextPcs
            /\ ctx[g] = k
            /\ [](HighPriorityCount # 0))
           => <>(/\ pc[g] = "idle"
                 /\ call[g] = "WaitIfActiveWithContext"
                 /\ ret[g] = k))

\* A WaitIfActiveWithContext call has returned DeadlineExceeded while a section
\* is open.
DeadlineReturnedWhileActive ==
    \E g \in Procs :
        /\ call[g] = "WaitIfActiveWithContext" /\ pc[g] = "idle"
        /\ ret[g] = "DeadlineExceeded"
        /\ HighPriorityCount > 0

\* C12: WaitIfActiveWithContext returns a failure only when its context has
\* fired, and success only from a poll that read the counter as zero; so while
\* the counter is nonzero and the context is not done the call does not return.
WaitIfActiveWithContextReturnsOnlyOnCause ==
    [][\A g \in Procs :
          (pc[g] \in WaitIfActiveWithContextPcs /\ pc'[g] = "idle") =>
              \/ /\ ret'[g] \in Firings
                 /\ ctx[g] = ret'[g]
              \/ /\ ret'[g] = "nil"
                 /\ pc[g] = "ctxwait_poll"
                 /\ HighPriorityCount = 0]_vars

\* A WaitIfActiveWithContext call has returned nil with its context not done,
\* and another goroutine has entered and exited a section.
PollReturnedNilAfterExit ==
    \E g \in Procs :
        /\ call[g] = "WaitIfActiveWithContext" /\ pc[g] = "idle"
        /\ ret[g] = "nil" /\ ctx[g] = "live"
        /\ \E h \in Procs : h # g /\ call[h] = "Exit"

\* C13: under fair scheduling, a WaitIfActiveWithContext call whose context
\* never fires returns nil once the counter is zero and stays zero, whether or
\* not Cond is ever broadcast.
WaitIfActiveWithContextReturnsNilAtZero ==
    \A g \in Procs :
        []((/\ pc[g] \in WaitIfActiveWithContextPcs
            /\ [](HighPriorityCount = 0 /\ ctx[g] = "live"))
           => <>(/\ pc[g] = "idle"
                 /\ call[g] = "WaitIfActiveWithContext"
                 /\ ret[g] = "nil"))

\* A WaitIfActiveWithContext call has returned nil at a zero counter that no
\* exit to zero produced: no broadcast was ever made.
PollReturnedNilWithoutBroadcast ==
    \E g \in Procs :
        /\ call[g] = "WaitIfActiveWithContext" /\ pc[g] = "idle"
        /\ ret[g] = "nil"
        /\ \A h \in Procs : call[h] \notin {"Enter", "Exit"}
        /\ \E h \in Procs : h # g /\ call[h] = "WaitIfActiveWithContext"

\* C14: a MaybeYieldWithContext call whose context is already cancelled or
\* expired ends in the step of its select: it returns the context's error, makes
\* no yield (it never reaches MaybeYield's Gosched) and touches neither the
\* counter nor the gate, whether or not a section is open.
MaybeYieldWithContextFiredReturnsError ==
    [][\A g \in Procs :
          (MaybeYieldWithContext(g) /\ Done(ctx'[g])) =>
              /\ pc'[g] = "idle"
              /\ ret'[g] = ctx'[g]
              /\ ret'[g] \in Firings
              /\ UNCHANGED <<HighPriorityCount, Mu, Cond>>]_vars

\* MaybeYieldWithContext has returned Canceled while a section is open.
CanceledYieldReturnedWhileActive ==
    \E g \in Procs :
        /\ call[g] = "MaybeYieldWithContext" /\ pc[g] = "idle"
        /\ ret[g] = "Canceled" /\ ctx[g] = "Canceled"
        /\ HighPriorityCount > 0

\* C15: a MaybeYieldWithContext call whose context is not done at its select
\* goes on to MaybeYield, which yields exactly if the counter is positive, and
\* the call returns nil whatever becomes of the context meanwhile.
MaybeYieldWithContextLiveReturnsNil ==
    [][\A g \in Procs :
          /\ (MaybeYieldWithContext(g) /\ ctx'[g] = "live") =>
                 pc'[g] = "ctxyield_load"
          /\ (pc[g] = "ctxyield_load" /\ pc'[g] # pc[g]) =>
                 (pc'[g] = "ctxyield_gosched" <=> IsHighPriorityActive)
          /\ (pc[g] \in MaybeYieldWithContextPcs /\ pc'[g] = "idle") =>
                 ret'[g] = "nil"]_vars

\* MaybeYieldWithContext has returned nil inside a section although its context
\* fired during the call.
YieldReturnedNilAfterFiring ==
    \E g \in Procs :
        /\ call[g] = "MaybeYieldWithContext" /\ pc[g] = "idle"
        /\ ret[g] = "nil" /\ ctx[g] \in Firings
        /\ HighPriorityCount > 0

\* C16: a MaybeYield or MaybeYieldFast call made while the counter is zero is
\* over in the step of its load: it makes no yield, waits for nothing and
\* leaves the counter, the gate and the configuration as they are, however
\* many goroutines make such calls.
MaybeYieldAtZeroReturnsAtOnce ==
    [][\A g \in Procs :
          ((MaybeYield(g) \/ MaybeYieldFast(g)) /\ HighPriorityCount = 0) =>
              /\ pc'[g] = "idle"
              /\ ret'[g] \in {"yield_skipped", "yieldfast_skipped"}
              /\ UNCHANGED <<HighPriorityCount, Mu, Cond, SpinWaitIterations>>]_vars

\* Two goroutines have called MaybeYield and MaybeYieldFast at a zero counter
\* and both calls are over without a yield.
BothYieldsSkippedAtZero ==
    \E g, h \in Procs :
        /\ call[g] = "MaybeYield" /\ ret[g] = "yield_skipped"
        /\ call[h] = "MaybeYieldFast" /\ ret[h] = "yieldfast_skipped"
        /\ pc[g] = "idle" /\ pc[h] = "idle"
        /\ HighPriorityCount = 0

\* C17: a MaybeYield call made while a section is open yields the processor
\* once and then sleeps for DefaultYieldDuration before it returns: it never
\* returns straight from its Gosched.
MaybeYieldSleepsAfterYield ==
    [][\A g \in Procs :
          (DefaultYieldDuration > 0 /\ pc[g] = "yield_gosched"
             /\ pc'[g] # pc[g]) =>
              pc'[g] = "yield_sleep"]_vars

\* C18: a MaybeYieldFast call made while a section is open makes one Gosched
\* and returns from it; the Gosched waits for nothing (it can be taken whatever
\* the counter is), and the call never holds Mu nor parks on Cond.
MaybeYieldFastYieldsOnce ==
    /\ [](\A g \in Procs :
            pc[g] = "yieldfast_gosched" =>
                /\ g \notin Cond
                /\ Mu # g
                /\ ENABLED MaybeYieldFastGosched(g))
    /\ [][\A g \in Procs :
             /\ (MaybeYieldFast(g) /\ HighPriorityCount > 0) =>
                    pc'[g] = "yieldfast_gosched"
             /\ (pc[g] = "yieldfast_gosched" /\ pc'[g] # pc[g]) =>
                    /\ pc'[g] = "idle"
                    /\ ret'[g] = "yieldfast_done"
                    /\ UNCHANGED <<HighPriorityCount, Mu, Cond>>]_vars

\* MaybeYieldFast has yielded and returned while the section is still open.
FastYieldReturnedWhileActive ==
    \E g \in Procs :
        /\ call[g] = "MaybeYieldFast" /\ pc[g] = "idle"
        /\ ret[g] = "yieldfast_done"
        /\ HighPriorityCount > 0

\* The functions that only read the protocol state.
Primitives ==
    {"MaybeYield", "MaybeYieldFast", "MaybeYieldWithContext", "WaitIfActive",
     "WaitIfActiveFast", "WaitIfActiveWithContext", "IsActive"}

\* C19: no step of MaybeYield, MaybeYieldFast, MaybeYieldWithContext,
\* WaitIfActive, WaitIfActiveFast, WaitIfActiveWithContext or
\* IsHighPriorityActive changes the counter; every step that changes it is a
\* step of EnterHighPriority or of ExitHighPriority.
OnlySectionsChangeCounter ==
    [][/\ \A g \in Procs :
             (Yields(g) \/ Waits(g) \/ FastWaits(g) \/ ContextYields(g)
                \/ ContextWaits(g)) => UNCHANGED HighPriorityCount
       /\ HighPriorityCount' # HighPriorityCount =>
             \E g \in Procs :
                 EnterHighPriority(g) \/ ExitHighPriority(g) \/ ExitStore(g)]_vars

\* One goroutine holds a section and another has completed a primitive: the
\* counter still counts the one open section.
PrimitiveDoneCounterKept ==
    \E g, h \in Procs :
        /\ depth[g] = 1 /\ call[g] = "Enter"
        /\ call[h] \in Primitives /\ pc[h] = "idle"
        /\ ret[h] \in {"yield_done", "yieldfast_done", "nil", "Canceled",
                       "DeadlineExceeded", "true"}
        /\ HighPriorityCount = 1

\* C20: with a trace handler installed, every protocol event is handed to it
\* once, in the order of the operations: "enter_high_priority" by
\* EnterHighPriority, "high_priority_active" by a MaybeYield that yields,
\* "high_priority_active_fast" by a MaybeYieldFast that yields,
\* "wait_complete_fast" by a WaitIfActiveFast that returns, and
\* "exit_high_priority" by an ExitHighPriority that reaches zero.
TraceHandlerSeesEveryEvent ==
    [][\A g \in Procs :
          /\ EnterHighPriority(g) =>
                 events' = traceYieldEvent(g, "enter_high_priority")
          /\ MaybeYieldGosched(g) =>
                 events' = traceYieldEvent(g, "high_priority_active")
          /\ MaybeYieldFastGosched(g) =>
                 events' = traceYieldEvent(g, "high_priority_active_fast")
          /\ (pc[g] \in WaitIfActiveFastPcs /\ pc'[g] = "idle") =>
                 events' = traceYieldEvent(g, "wait_complete_fast")
          /\ ExitUnlock(g) =>
                 events' = traceYieldEvent(g, "exit_high_priority")]_vars

\* C29: a waiter checks the counter again after every wake: a goroutine woken
\* in WaitIfActive or in the fallback of WaitIfActiveFast goes back to the loop
\* condition, a loop condition that reads the counter as positive sends it to
\* park again, and a call that has parked returns only from a read of the
\* counter that is not positive.
WaitersRecheckAfterWake ==
    [][\A g \in Procs :
          /\ (pc[g] = "wait_woken" /\ pc'[g] # pc[g]) => pc'[g] = "wait_unlock"
          /\ (pc[g] = "wait_unlock" /\ pc'[g] # pc[g]) => pc'[g] = "wait_check"
          /\ (pc[g] = "fast_woken" /\ pc'[g] # pc[g]) => pc'[g] = "fast_unlock"
          /\ (pc[g] = "fast_unlock" /\ pc'[g] # pc[g]) => pc'[g] = "fast_check"
          /\ (pc[g] = "wait_check" /\ pc'[g] # pc[g] /\ HighPriorityCount > 0)
                 => pc'[g] = "wait_lock"
          /\ (pc[g] = "fast_check" /\ pc'[g] # pc[g] /\ HighPriorityCount > 0)
                 => pc'[g] = "fast_lock"
          /\ (gate[g] /\ pc[g] \in WaitIfActivePcs \cup WaitIfActiveFastPcs
                /\ pc'[g] = "idle")
                 => (pc[g] \in {"wait_check", "fast_check"}
                       /\ HighPriorityCount <= 0)]_vars

\* A waiter that was woken by the broadcast of an exit to zero has read the
\* counter as positive again, a new section being open, and is on its way to
\* park a second time.
WokenWaiterParksAgain ==
    \E g \in Procs :
        /\ pc[g] = "wait_lock" /\ gate[g] /\ obs[g] = "zeroed"
        /\ HighPriorityCount > 0

\* C30: an ExitHighPriority whose decrement returns a negative count takes the
\* reset branch: it stores zero and returns, in a step that waits for nothing,
\* without locking Mu and without waking any goroutine parked on Cond.
UnmatchedExitResetsSilently ==
    /\ [](\A g \in Procs :
            pc[g] = "exit_store" =>
                /\ count[g] < 0
                /\ Mu # g
                /\ ENABLED ExitStore(g))
    /\ [][\A g \in Procs :
             /\ (ExitHighPriority(g) /\ ExitAdd(HighPriorityCount) < 0) =>
                    (pc'[g] = "exit_store" /\ UNCHANGED <<Mu, Cond>>)
             /\ ExitStore(g) =>
                    /\ HighPriorityCount' = 0
                    /\ pc'[g] = "idle"
                    /\ ret'[g] = "clamped"
                    /\ UNCHANGED <<Mu, Cond>>
                    /\ \A h \in Procs \ {g} : pc'[h] = pc[h]]_vars

\* An unmatched exit has made its reset and returned while a waiter stays
\* parked on Cond.
UnmatchedExitLeftWaiterParked ==
    \E g, h \in Procs :
        /\ call[g] = "Exit" /\ ret[g] = "clamped" /\ pc[g] = "idle"
        /\ pc[h] = "wait_parked" /\ h \in Cond

FlagIsPerGoroutine ==
    [][\A g \in Procs :
          GetHighPriorityCall(g) =>
              ret'[g] = IF declared[g] = "unset" THEN "false" ELSE declared[g]]_vars

ExitEventOnlyAtZero ==
    [][\A g \in Procs :
          traceFunc # "nil" =>
              /\ (ExitHighPriority(g) /\ ExitAdd(HighPriorityCount) # 0)
                     => events' = events
              /\ (ExitLock(g) \/ ExitBroadcast(g) \/ ExitStore(g))
                     => events' = events
              /\ ExitUnlock(g)
                     => /\ Len(events') = Len(events) + 1
                        /\ events'[Len(events')].Reason = "exit_high_priority"]_vars

\* C22: removing the trace handler stops recording at once. While the handler
\* is nil a trace event reaches nobody, whichever goroutine emits it and for
\* whatever reason, and no step of an operation adds to what the handler that
\* was installed before has been handed.
NoRecordingWithoutHandler ==
    /\ [](traceFunc = "nil" =>
              \A g \in Procs :
                  \A r \in {"enter_high_priority", "exit_high_priority",
                            "high_priority_active", "high_priority_active_fast",
                            "wait_complete", "wait_complete_fast"} :
                      traceYieldEvent(g, r) = events)
    /\ [][(traceFunc = "nil" /\ traceFunc' = "nil") => events' = events]_vars

\* A section was opened after SetTraceFunc(nil) had replaced a handler.
SectionOpenedAfterHandlerRemoved ==
    \E g, h \in Procs :
        /\ call[g] = "SetTraceFunc"
        /\ ret[g] = "handler_removed"
        /\ traceFunc = "nil"
        /\ call[h] = "Enter"
        /\ depth[h] = 1

\* C28: every trace event carries the identity of the goroutine that emitted
\* it. No recorded event has GoroutineID 0, and once the goroutines of
\* TestGoroutineIDTracking have all run EnterHighPriority; MaybeYield;
\* ExitHighPriority under the handler, the events recorded carry at least as
\* many distinct GoroutineID values as there are goroutines.
EveryGoroutineIdRecorded ==
    /\ \A i \in DOMAIN events : events[i].GoroutineID # 0
    /\ (\A g \in Procs : step[g] = Len(IdSeq) /\ pc[g] = "idle") =>
           Cardinality({events[i].GoroutineID : i \in DOMAIN events}) >= NumProcs

\* C23: the sequence EnterHighPriority; MaybeYield; MaybeYieldFast;
\* WaitIfActiveFast; ExitHighPriority of a single goroutine runs to completion:
\* under balanced use and fair scheduling, a WaitIfActiveFast call made by the
\* goroutine that holds the only open section eventually returns, so that the
\* goroutine can go on to its own ExitHighPriority.
WaitIfActiveFastInOwnSectionReturns ==
    \A g \in Procs :
        (pc[g] \in WaitIfActiveFastPcs /\ depth[g] = 1 /\ HighPriorityCount = 1)
            ~> (pc[g] \notin WaitIfActiveFastPcs)

\* C27: the spin budget is read on each invocation and bounds the spin. A
\* WaitIfActiveFast call starts with the budget SetSpinWaitIterations left in
\* SpinWaitIterations, every iteration of (check counter, yield processor)
\* uses up one of it whatever the variable is set to meanwhile, the call falls
\* back to the Wait Gate when none is left, and a spinning goroutine neither
\* holds Mu nor waits on Cond.
SpinBoundedByBudget ==
    /\ [](\A g \in Procs :
              pc[g] \in {"fast_spin", "fast_gosched"} =>
                  /\ spin[g] >= 1
                  /\ spin[g] <= MaxSpin
                  /\ Mu # g
                  /\ g \notin Cond
                  /\ ~gate[g])
    /\ [][\A g \in Procs :
             /\ WaitIfActiveFastCall(g)
                    => /\ spin'[g] = SpinWaitIterations
                       /\ pc'[g] = IF SpinWaitIterations = 0
                                   THEN "fast_check" ELSE "fast_spin"
             /\ (pc[g] \in {"fast_spin", "fast_gosched"} /\ pc'[g] = pc[g])
                    => spin'[g] = spin[g]
             /\ (pc[g] = "fast_spin" /\ pc'[g] # pc[g])
                    => /\ pc'[g] \in {"idle", "fast_gosched"}
                       /\ pc'[g] = "fast_gosched" => spin'[g] = spin[g]
                       /\ UNCHANGED <<Mu, Cond>>
             /\ (pc[g] = "fast_gosched" /\ pc'[g] # pc[g])
                    => /\ spin'[g] = spin[g] - 1
                       /\ pc'[g] = IF spin[g] = 1 THEN "fast_check" ELSE "fast_spin"
                       /\ UNCHANGED <<Mu, Cond>>]_vars

\* Goroutine 1 opened a section, goroutine 2 then changed the spin budget to
\* MaxSpin, and goroutine 3 then called WaitIfActiveFast, used the budget up and
\* fell back to the Wait Gate.
SpinFellBackAfterNewBudget ==
    /\ call[1] = "Enter"
    /\ call[2] = "SetSpinWaitIterations"
    /\ call[3] = "WaitIfActiveFast"
    /\ left = MaxCalls - 3
    /\ ret[2] = "spin_changed"
    /\ SpinWaitIterations = MaxSpin
    /\ pc[3] = "fast_lock"
    /\ spin[3] = 0

\* The program positions inside an ExitHighPriority call.
ExitHighPriorityPcs == {"exit_lock", "exit_broadcast", "exit_unlock", "exit_store"}

\* C31: no waiter is stranded at zero, unmatched exits included: whenever the
\* counter is zero and no EnterHighPriority or ExitHighPriority call is in
\* progress, no goroutine is parked on Cond inside WaitIfActive or
\* WaitIfActiveFast.
NoWaiterStrandedAtZero ==
    (HighPriorityCount = 0 /\ \A g \in Procs : pc[g] \notin ExitHighPriorityPcs) =>
        /\ Cond = {}
        /\ \A g \in Procs : pc[g] \notin {"wait_parked", "fast_parked"}

\* C32: the counter never exceeds the number of open sections, whatever the
\* interleaving of matched and unmatched exits and their resets; so
\* IsHighPriorityActive returns true only while a section is open, and with no
\* section open the loop condition of WaitIfActive or of the fallback of
\* WaitIfActiveFast lets the caller return instead of sending it to the gate.
CounterAtMostOpenSections ==
    /\ [](HighPriorityCount <= Open)
    /\ [](Open = 0 => ~IsHighPriorityActive)
    /\ [][\A g \in Procs :
             /\ (IsHighPriorityActiveCall(g) /\ ret'[g] = "true") => Open > 0
             /\ ((WaitIfActiveCheck(g) \/ WaitIfActiveFastCheck(g)) /\ Open = 0)
                    => pc'[g] = "idle"]_vars

\* An unmatched exit has made its reset while a section is open: the counter
\* is below the number of open sections.
CounterBelowOpenAfterReset ==
    \E g, h \in Procs :
        /\ ret[g] = "clamped"
        /\ pc[g] = "idle"
        /\ depth[h] > 0
        /\ HighPriorityCount < Open

\* The goroutines at a program position between a Mu.Lock() and the unlock
\* that follows it.
MuHolders ==
    {g \in Procs : pc[g] \in {"exit_broadcast", "exit_unlock", "wait_wait",
                              "wait_unlock", "fast_wait", "fast_unlock"}}

\* C33: the lock discipline of the Wait Gate. The goroutines between a lock and
\* its unlock are exactly the holder of Mu, at most one; Cond.Broadcast and
\* Cond.Wait are executed by the holder of Mu only; a goroutine parked in
\* Cond.Wait, or woken and not yet running, does not hold Mu; and a goroutine
\* that has returned from ExitHighPriority, WaitIfActive or WaitIfActiveFast
\* does not hold Mu.
WaitGateLockDiscipline ==
    /\ [](/\ MuHolders = IF Mu = 0 THEN {} ELSE {Mu}
          /\ Cardinality(MuHolders) <= 1
          /\ \A g \in Cond : pc[g] \in {"wait_parked", "fast_parked"}
          /\ \A g \in Procs :
                 pc[g] \in {"wait_parked", "fast_parked", "wait_woken",
                            "fast_woken", "idle"} => Mu # g)
    /\ [][\A g \in Procs :
             (ExitBroadcast(g) \/ WaitIfActiveWait(g) \/ WaitIfActiveFastWait(g))
                 => Mu = g]_vars
    /\ [][Cond' # Cond => Mu # 0 /\ pc'[Mu] # pc[Mu]]_vars

\* The exiting goroutine holds Mu for its broadcast while a waiter is parked.
BroadcasterHoldsMuOverParked ==
    \E g, h \in Procs :
        /\ pc[g] = "exit_broadcast"
        /\ Mu = g
        /\ pc[h] \in {"wait_parked", "fast_parked"}
        /\ h \in Cond

\* The positions of the loop `for HighPriorityCount.Load() > 0 { Mu.Lock();
\* Cond.Wait(); Mu.Unlock() }`, which WaitIfActive and the fallback of
\* WaitIfActiveFast both run.
GatePcs == WaitIfActivePcs \cup (WaitIfActiveFastPcs \ {"fast_spin", "fast_gosched"})

\* The place in that loop of a program position of either function.
GatePos(p) ==
    CASE p \in {"wait_check", "fast_check"} -> "check"
      [] p \in {"wait_lock", "fast_lock"} -> "lock"
      [] p \in {"wait_wait", "fast_wait"} -> "wait"
      [] p \in {"wait_parked", "fast_parked"} -> "parked"
      [] p \in {"wait_woken", "fast_woken"} -> "woken"
      [] p \in {"wait_unlock", "fast_unlock"} -> "unlock"
      [] OTHER -> "out"

\* One step of goroutine g through the loop, told by places alone: what it does
\* to the counter, to Mu and to Cond, and where it goes.
GateStep(g) ==
    LET p == GatePos(pc[g])
        q == GatePos(pc'[g])
    IN  /\ HighPriorityCount' = HighPriorityCount
        /\ CASE p = "check" ->
                  /\ UNCHANGED <<Mu, Cond>>
                  /\ IF HighPriorityCount > 0 THEN q = "lock" ELSE pc'[g] = "idle"
             [] p = "lock" -> Mu = 0 /\ Mu' = g /\ Cond' = Cond /\ q = "wait"
             [] p = "wait" ->
                  Mu = g /\ Mu' = 0 /\ Cond' = Cond \cup {g} /\ q = "parked"
             [] p = "woken" -> Mu = 0 /\ Mu' = g /\ Cond' = Cond /\ q = "unlock"
             [] p = "unlock" -> Mu = g /\ Mu' = 0 /\ Cond' = Cond /\ q = "check"
             [] OTHER -> FALSE

\* The step of either function that goroutine g can take next.
GateMove(g) ==
    \/ WaitIfActiveCheck(g) \/ WaitIfActiveLock(g) \/ WaitIfActiveWait(g)
    \/ WaitIfActiveWake(g) \/ WaitIfActiveUnlock(g)
    \/ WaitIfActiveFastCheck(g) \/ WaitIfActiveFastLock(g)
    \/ WaitIfActiveFastWait(g) \/ WaitIfActiveFastWake(g)
    \/ WaitIfActiveFastUnlock(g)

\* C34: with a spin budget of zero or less WaitIfActiveFast makes no spin
\* iteration and behaves as WaitIfActive does. Both start at the loop
\* condition; the two loop conditions agree on every counter value; from then
\* on a step of either function reads and changes the counter, Mu and Cond as
\* the place in the loop says and goes to the same next place, can be taken in
\* the same states, and the call returns only from the loop condition, on a
\* counter that is not positive.
WaitIfActiveFastLikeWaitIfActive ==
    /\ [](/\ \A n \in -1..0 : SpinBudget(n) = 0
          /\ \A c \in (0 - NumProcs)..NumProcs :
                 WaitIfActiveFastCond(c) <=> WaitIfActiveCond(c)
          /\ \A g \in Procs :
                 pc[g] \in GatePcs /\ GatePos(pc[g]) # "parked" =>
                     (ENABLED GateMove(g) <=>
                          (GatePos(pc[g]) \in {"lock", "woken"} => Mu = 0)))
    /\ [][\A g \in Procs :
             /\ WaitIfActiveCall(g) => pc'[g] = "wait_check"
             /\ (WaitIfActiveFastCall(g) /\ SpinWaitIterations <= 0)
                    => pc'[g] = "fast_check" /\ spin'[g] = 0
             /\ (pc[g] \in WaitIfActivePcs /\ pc'[g] # pc[g])
                    => pc'[g] \in WaitIfActivePcs \cup {"idle"}
             /\ (pc[g] \in GatePcs \ WaitIfActivePcs /\ pc'[g] # pc[g])
                    => pc'[g] \in (GatePcs \ WaitIfActivePcs) \cup {"idle"}
             /\ (pc[g] \in GatePcs /\ pc'[g] # pc[g])
                    => IF GatePos(pc[g]) = "parked"
                       THEN GatePos(pc'[g]) = "woken"
                       ELSE GateStep(g)]_vars

\* With no spin budget, a WaitIfActive call and a WaitIfActiveFast call are
\* parked side by side.
BothWaitsParkedWithoutSpin ==
    \E g, h \in Procs :
        /\ SpinWaitIterations = 0
        /\ call[g] = "WaitIfActive"
        /\ pc[g] = "wait_parked"
        /\ call[h] = "WaitIfActiveFast"
        /\ pc[h] = "fast_parked"
        /\ spin[h] = 0

\* C35: WaitIfActiveWithContext reads the counter only after a tick, never at
\* entry. The call starts at its select with no tick pending, and reaches the
\* poll only by receiving a tick; at the select with a fired context and no
\* tick pending its only step returns the context's error, whatever the
\* counter; with a tick and a fired context both pending either case can be
\* taken; and under fair scheduling a call whose context has fired returns.
WaitIfActiveWithContextPollsOnlyAfterTick ==
    /\ [](\A g \in Procs :
              (pc[g] = "ctxwait_select" /\ Done(ctx[g])) =>
                  /\ ENABLED WaitIfActiveWithContextDone(g)
                  /\ ENABLED WaitIfActiveWithContextRecv(g) <=> tick[g])
    /\ [][\A g \in Procs :
             /\ WaitIfActiveWithContext(g)
                    => pc'[g] = "ctxwait_select" /\ ~tick'[g]
             /\ (pc'[g] = "ctxwait_poll" /\ pc[g] # "ctxwait_poll")
                    => pc[g] = "ctxwait_select" /\ tick[g] /\ ~tick'[g]
             /\ (pc[g] = "ctxwait_select" /\ pc'[g] # pc[g] /\ ~tick[g])
                    => /\ Done(ctx[g])
                       /\ pc'[g] = "idle"
                       /\ ret'[g] = Err(ctx[g])
             /\ (pc[g] = "ctxwait_select" /\ pc'[g] = "idle")
                    => ret'[g] = Err(ctx[g]) /\ ret'[g] \in Firings]_vars
    /\ \A g \in Procs :
           [](pc[g] \in WaitIfActiveWithContextPcs /\ Done(ctx[g])
                  => <>(pc[g] = "idle"))

\* With the counter at zero all along, a WaitIfActiveWithContext call has
\* returned the error of its context.
ErrorReturnedAtZeroCounter ==
    \E g \in Procs :
        /\ call[g] = "WaitIfActiveWithContext" /\ pc[g] = "idle"
        /\ ret[g] \in Firings
        /\ HighPriorityCount = 0
        /\ \A h \in Procs : call[h] \notin {"Enter", "Exit"}

\* C36: WaitIfActiveWithContext never acquires Mu and never parks on Cond. In
\* the call a goroutine neither holds Mu nor is among the goroutines waiting on
\* Cond, and its steps leave both alone; so an exit that stands before its
\* Mu.Lock() can take it whenever the call's next step can be taken, a
\* broadcast moves no goroutine that is inside the call, and the call returns
\* by steps of its own, not by anyone's broadcast.
WaitIfActiveWithContextAvoidsGate ==
    /\ [](\A g \in Procs :
              pc[g] \in WaitIfActiveWithContextPcs =>
                  /\ Mu # g
                  /\ g \notin Cond
                  /\ ~gate[g]
                  /\ \A h \in Procs :
                         (pc[h] = "exit_lock" /\ Mu = 0) => ENABLED ExitLock(h))
    /\ [][\A g \in Procs :
             /\ (\/ WaitIfActiveWithContext(g)
                 \/ WaitIfActiveWithContextTick(g)
                 \/ WaitIfActiveWithContextDone(g)
                 \/ WaitIfActiveWithContextRecv(g)
                 \/ WaitIfActiveWithContextPoll(g)) => UNCHANGED <<Mu, Cond>>
             /\ ExitBroadcast(g) =>
                    \A h \in Procs :
                        pc[h] \in WaitIfActiveWithContextPcs => pc'[h] = pc[h]
             /\ (pc[g] \in WaitIfActiveWithContextPcs /\ pc'[g] = "idle")
                    => \/ WaitIfActiveWithContextDone(g)
                       \/ WaitIfActiveWithContextPoll(g)]_vars

\* An exit to zero makes its broadcast while a WaitIfActiveWithContext call is
\* in progress.
BroadcastPassesContextWaiter ==
    \E g, h \in Procs :
        /\ pc[g] = "exit_broadcast"
        /\ Mu = g
        /\ call[h] = "WaitIfActiveWithContext"
        /\ pc[h] \in WaitIfActiveWithContextPcs

\* C37: EnterHighPriority and ExitHighPriority always terminate.
\* EnterHighPriority is one step that leaves Mu and Cond alone; an
\* ExitHighPriority holds Mu from its lock to its unlock only, with the
\* broadcast in between; and under fair scheduling every ExitHighPriority call
\* returns, however many goroutines are parked in or on their way into
\* WaitIfActive and WaitIfActiveFast.
SectionsAlwaysTerminate ==
    /\ [][\A g \in Procs :
             /\ EnterHighPriority(g) => pc'[g] = "idle" /\ UNCHANGED <<Mu, Cond>>
             /\ ExitHighPriority(g) => UNCHANGED <<Mu, Cond>>
             /\ ExitLock(g) => pc'[g] = "exit_broadcast"
             /\ ExitBroadcast(g) => pc'[g] = "exit_unlock" /\ Mu' = g
             /\ ExitUnlock(g) => pc'[g] = "idle" /\ Mu' = 0]_vars
    /\ \A g \in Procs :
           [](pc[g] \in ExitHighPriorityPcs => <>(pc[g] = "idle"))

\* An ExitHighPriority has returned after its broadcast woke a waiter that
\* was parked at the gate.
ExitReturnedPastWaiters ==
    \E g, h \in Procs :
        /\ call[g] = "Exit"
        /\ pc[g] = "idle"
        /\ ret[g] = "none"
        /\ call[h] \in {"WaitIfActive", "WaitIfActiveFast"}
        /\ pc[h] \in {"wait_woken", "fast_woken"}

====
